---- MODULE Spec2Model ----
(***************************************************************************)
(* Model of the ChucK documentation crawler (src/crawler.py).              *)
(*                                                                         *)
(* Strings are sequences of tokens.  Every token stands for a fixed        *)
(* substring ("https:", "/", "doc", ...) and no token is a prefix or a     *)
(* suffix of another one that occurs in the model, so str.startswith,      *)
(* str.endswith, str.rstrip('/'), str.lstrip('/') and the "in" substring   *)
(* test on the token sequences agree with the same operations on the       *)
(* character strings.                                                      *)
(***************************************************************************)
EXTENDS Integers, Sequences, FiniteSets, TLC

\* ------------------------------------------------------------------ bounds
\* largest value of <max_number_of_urls> given on the command line
MaxCap == 3
\* largest number of non-blank lines in the seed file
MaxSeeds == 2

\* ------------------------------------------------------- string operations
\* str.startswith(p)
StartsWith(s, p) ==
    /\ Len(p) <= Len(s)
    /\ SubSeq(s, 1, Len(p)) = p

\* str.endswith(p)
EndsWith(s, p) ==
    /\ Len(p) <= Len(s)
    /\ SubSeq(s, Len(s) - Len(p) + 1, Len(s)) = p

\* p in s  (substring test)
Contains(s, p) ==
    \E i \in 0..(Len(s) - Len(p)) : SubSeq(s, i + 1, i + Len(p)) = p

\* the URL with its trailing slashes kept
RStripNone(s) ==
    s

\* str.rstrip('/')
RECURSIVE RStripSlash(_)
RStripSlash(s) ==
    IF s # <<>> /\ s[Len(s)] = "/" THEN RStripSlash(SubSeq(s, 1, Len(s) - 1)) ELSE s

\* str.lstrip('/')
RECURSIVE LStripSlash(_)
LStripSlash(s) ==
    IF s # <<>> /\ s[1] = "/" THEN LStripSlash(Tail(s)) ELSE s

\* str.replace(old, new) for a one-token old
RECURSIVE ReplaceTok(_, _, _)
ReplaceTok(s, old, new) ==
    IF s = <<>> THEN <<>>
    ELSE (IF s[1] = old THEN new ELSE <<s[1]>>) \o ReplaceTok(Tail(s), old, new)

\* index of the first occurrence of token c in s, 0 when absent (str.find + 1)
RECURSIVE FindTok(_, _, _)
FindTok(s, c, i) ==
    IF i > Len(s) THEN 0
    ELSE IF s[i] = c THEN i
    ELSE FindTok(s, c, i + 1)

\* ------------------------------------------------------------ program text
\* allowed_roots = ["https://chuck.stanford.edu/doc/"]
DocRoot == <<"https:", "/", "/", "chuck.stanford.edu", "/", "doc", "/">>
allowed_roots == <<DocRoot>>

\* validate_url that looks for the host of a root anywhere in the URL
validate_url_host(url, roots) ==
    \E k \in 1..Len(roots) : Contains(url, SubSeq(roots[k], 4, 4))

\* validate_url(url, allowed_roots)
validate_url(url, roots) ==
    \E k \in 1..Len(roots) : StartsWith(url, roots[k])

\* ------------------------------------------------------------ urllib.parse
\* the value None
None == <<"None">>

\* scheme tokens ("<scheme>:"), and those whose scheme is in uses_relative
Schemes == {"http:", "https:", "mailto:"}
UsesRelative == {"http:", "https:"}

\* str.split('/'): the sequence of segments between the "/" tokens
RECURSIVE SplitAt(_, _)
SplitAt(s, i) ==
    IF i = 0 THEN <<s>>
    ELSE <<SubSeq(s, 1, i - 1)>>
         \o SplitAt(SubSeq(s, i + 1, Len(s)), FindTok(SubSeq(s, i + 1, Len(s)), "/", 1))

SplitSlash(s) ==
    SplitAt(s, FindTok(s, "/", 1))

\* '/'.join(segs)
RECURSIVE JoinSlash(_)
JoinSlash(segs) ==
    IF segs = <<>> THEN <<>>
    ELSE IF Len(segs) = 1 THEN segs[1]
    ELSE segs[1] \o <<"/">> \o JoinSlash(Tail(segs))

\* url.lstrip(_WHATWG_C0_CONTROL_OR_SPACE) of urlsplit
RECURSIVE LStripSpace(_)
LStripSpace(s) ==
    IF s # <<>> /\ s[1] = " " THEN LStripSpace(Tail(s)) ELSE s

\* the part of s before position i, all of s when i = 0
Before(s, i) ==
    IF i = 0 THEN s ELSE SubSeq(s, 1, i - 1)

\* the part of s after position i, nothing when i = 0
After(s, i) ==
    IF i = 0 THEN <<>> ELSE SubSeq(s, i + 1, Len(s))

\* the smaller of two positions, where 0 stands for "not found"
FirstOf(i, j) ==
    IF i = 0 THEN j ELSE IF j = 0 THEN i ELSE IF i < j THEN i ELSE j

\* urlsplit, last step: path and query of what follows the network location
SplitQuery(scheme, netloc, rest, q) ==
    [scheme |-> scheme, netloc |-> netloc,
     path |-> Before(rest, q), query |-> After(rest, q)]

\* urlsplit, third step: the network location ends at the first "/" or "?"
SplitNetloc(scheme, rest, e) ==
    SplitQuery(scheme, Before(rest, e),
               IF e = 0 THEN <<>> ELSE SubSeq(rest, e, Len(rest)),
               IF e = 0 THEN 0 ELSE FindTok(SubSeq(rest, e, Len(rest)), "?", 1))

\* urlsplit, second step: "//" introduces a network location
SplitAuthority(scheme, rest) ==
    IF StartsWith(rest, <<"/", "/">>)
    THEN SplitNetloc(scheme, SubSeq(rest, 3, Len(rest)),
                     FirstOf(FindTok(SubSeq(rest, 3, Len(rest)), "/", 1),
                             FindTok(SubSeq(rest, 3, Len(rest)), "?", 1)))
    ELSE SplitQuery(scheme, <<>>, rest, FindTok(rest, "?", 1))

\* urlsplit, first step: a leading scheme token is the scheme
SplitScheme(url, default) ==
    SplitAuthority(IF url # <<>> /\ url[1] \in Schemes THEN url[1] ELSE default,
                   IF url # <<>> /\ url[1] \in Schemes THEN Tail(url) ELSE url)

\* urlparse(url, scheme=default): scheme, netloc, path and query of url
urlparse(url, default) ==
    SplitScheme(LStripSpace(Before(url, FindTok(url, "#", 1))), default)

\* does the network location hold an unbalanced bracket
BadNetloc(n) ==
    FindTok(n, "[", 1) # 0 /\ FindTok(n, "]", 1) = 0

\* urlsplit raises ValueError("Invalid IPv6 URL") on an unbalanced bracket in
\* the network location
ParseRaises(url) ==
    BadNetloc(urlparse(url, "").netloc)

\* urlunsplit: "//" netloc path, for a URL with a network location
WithNetloc(p) ==
    <<"/", "/">> \o p.netloc
    \o (IF p.path # <<>> /\ p.path[1] # "/" THEN <<"/">> ELSE <<>>)
    \o p.path

\* urlunparse((scheme, netloc, path, '', query, ''))
urlunparse(p) ==
    (IF p.scheme # "" THEN <<p.scheme>> ELSE <<>>)
    \o (IF p.netloc # <<>>
           \/ (p.scheme \in UsesRelative /\ ~StartsWith(p.path, <<"/", "/">>))
        THEN WithNetloc(p) ELSE p.path)
    \o (IF p.query # <<>> THEN <<"?">> \o p.query ELSE <<>>)

\* urldefrag(link)[0]: the link without its fragment; a link that has a
\* fragment is parsed and put together again
urldefrag(link) ==
    IF FindTok(link, "#", 1) = 0 THEN link ELSE urlunparse(urlparse(link, ""))

\* the loop of urljoin that folds "." and ".." segments
RECURSIVE ResolveDots(_, _)
ResolveDots(segs, acc) ==
    IF segs = <<>> THEN acc
    ELSE IF segs[1] = <<".", ".">>
         THEN ResolveDots(Tail(segs),
                          IF acc = <<>> THEN acc ELSE SubSeq(acc, 1, Len(acc) - 1))
    ELSE IF segs[1] = <<".">> THEN ResolveDots(Tail(segs), acc)
    ELSE ResolveDots(Tail(segs), Append(acc, segs[1]))

\* segments[1:-1] = filter(None, segments[1:-1])
RECURSIVE DropEmpty(_)
DropEmpty(segs) ==
    IF segs = <<>> THEN <<>>
    ELSE (IF segs[1] = <<>> THEN <<>> ELSE <<segs[1]>>) \o DropEmpty(Tail(segs))

FilterInner(segs) ==
    IF Len(segs) <= 2 THEN segs
    ELSE <<segs[1]>> \o DropEmpty(SubSeq(segs, 2, Len(segs) - 1)) \o <<segs[Len(segs)]>>

\* base_parts of urljoin: the segments of the base path without its last
\* non-empty segment
BaseParts(bp) ==
    IF bp[Len(bp)] # <<>> THEN SubSeq(bp, 1, Len(bp) - 1) ELSE bp

\* the resolved path of urljoin, from the segments of base and reference
ResolvedPath(segs) ==
    JoinSlash(ResolveDots(segs, <<>>)
              \o (IF segs[Len(segs)] \in {<<".">>, <<".", ".">>} THEN << <<>> >> ELSE <<>>))

\* '/'.join(resolved_path) or '/'
OrSlash(path) ==
    IF path = <<>> THEN <<"/">> ELSE path

\* urljoin for the parsed base b and the parsed reference u
JoinParsed(b, u, url) ==
    IF u.scheme # b.scheme \/ u.scheme \notin UsesRelative THEN url
    ELSE IF u.netloc # <<>> THEN urlunparse(u)
    ELSE IF u.path = <<>>
    THEN urlunparse([scheme |-> u.scheme, netloc |-> b.netloc, path |-> b.path,
                     query |-> IF u.query = <<>> THEN b.query ELSE u.query])
    ELSE urlunparse([scheme |-> u.scheme, netloc |-> b.netloc,
                     path |-> OrSlash(ResolvedPath(
                                 IF u.path[1] = "/" THEN SplitSlash(u.path)
                                 ELSE FilterInner(BaseParts(SplitSlash(b.path))
                                                  \o SplitSlash(u.path)))),
                     query |-> u.query])

\* urljoin with the base already parsed
JoinBase(b, url) ==
    JoinParsed(b, urlparse(url, b.scheme), url)

\* urljoin(base, url)
urljoin(base, url) ==
    IF base = <<>> THEN url
    ELSE IF url = <<>> THEN base
    ELSE JoinBase(urlparse(base, ""), url)

\* unquote(path): percent-escapes are decoded
RECURSIVE unquote(_)
unquote(s) ==
    IF s = <<>> THEN <<>>
    ELSE <<(CASE s[1] = "%20" -> " "
              [] s[1] = "%5B" -> "["
              [] s[1] = "%2520" -> "%20"
              [] OTHER -> s[1])>> \o unquote(Tail(s))

\* quote(path): characters outside the safe set are percent-encoded
RECURSIVE quote(_)
quote(s) ==
    IF s = <<>> THEN <<>>
    ELSE <<(CASE s[1] = " " -> "%20"
              [] s[1] = "[" -> "%5B"
              [] s[1] = "%20" -> "%2520"
              [] s[1] = "%5B" -> "%255B"
              [] s[1] = "%2520" -> "%252520"
              [] OTHER -> s[1])>> \o quote(Tail(s))

\* normalize_url raises when urldefrag or urljoin cannot parse the link
normalize_raises(link, root) ==
    ParseRaises(link)

\* the URL returned with the scheme it has
KeepScheme(u) ==
    u

\* normalized_url.replace("http://", "https://") of a URL that starts with it
EnsureHttps(u) ==
    IF StartsWith(u, <<"http:", "/", "/">>) THEN <<"https:">> \o Tail(u) ELSE u

\* f"{scheme}://{netloc}{path}" with the path decoded and encoded again
Rebuild(parsed_url) ==
    (IF parsed_url.scheme = "" THEN <<":">> ELSE <<parsed_url.scheme>>)
    \o <<"/", "/">> \o parsed_url.netloc \o quote(unquote(parsed_url.path))

\* normalize_url for a link without its fragment
NormalizeDefragged(link, root) ==
    IF link = <<>> THEN None
    ELSE EnsureHttps(Rebuild(urlparse(urljoin(root, link), "")))

\* normalize_url(link, root)
normalize_url(link, root) ==
    NormalizeDefragged(urldefrag(link), root)

\* ----------------------------------------------------------- save_content
\* safe_path with the extension of lines 62-64
WithExtension(directory, safe_path) ==
    IF directory = "html_files"
       /\ ~EndsWith(safe_path, <<".", "html">>)
       /\ ~EndsWith(safe_path, <<".", "htm">>)
    THEN safe_path \o <<".", "html">> ELSE safe_path

\* safe_path, lines 57-59
SafePath(flat) ==
    IF flat = <<>> THEN <<"index", ".", "html">> ELSE flat

\* file_path for the path of a URL, lines 48-70
PathFile(path, directory) ==
    <<directory, "/">>
    \o WithExtension(directory, SafePath(ReplaceTok(LStripSlash(path), "/", <<"_">>)))
    \o (IF EndsWith(path, <<"/">>) THEN <<"/", "index", ".", "html">> ELSE <<>>)

\* directory, lines 48-51
Directory(path) ==
    IF EndsWith(path, <<".", "ck">>) THEN "ck_files" ELSE "html_files"

\* file_path of a path
PathOf(path) ==
    PathFile(path, Directory(path))

\* the path of the file save_content(url, content) writes
FilePath(url) ==
    PathOf(urlparse(url, "").path)

\* os.path.dirname(file_path)
Dirname(fp) ==
    SubSeq(fp, 1, Len(fp) - 4)

\* the directory save_content creates for a directory-style url
FileDir(url) ==
    Dirname(FilePath(url))

\* the regular file whose name is the directory FileDir(url) needs, or the
\* directory whose name is the file FilePath(url): os.makedirs and open raise
save_raises(url, fs, ds) ==
    IF EndsWith(urlparse(url, "").path, <<"/">>)
    THEN FileDir(url) \in DOMAIN fs
    ELSE FilePath(url) \in ds

\* ------------------------------------------------------------------ inputs
\* the lines a seed file is made of
SeedPool ==
    { <<"https:", "/", "/", "chuck.stanford.edu", "/", "doc">>,
      <<"https:", "/", "/", "chuck.stanford.edu", "/", "doc", "/", "a", "/">>,
      <<"http:", "/", "/", "chuck.stanford.edu", "/", "doc", "/">> }

SeedFiles == UNION { [1..n -> SeedPool] : n \in 0..MaxSeeds }

\* Content-Type header values; a missing header reads as ""
HTML  == <<"text/html", "; charset=utf-8">>
MULTI == <<"multipart/related; type=", "text/html">>
PLAIN == <<"text/plain">>
NOTYPE == <<>>

\* href attributes of the anchors of a page, in document order
PageNew    == << <<"a">>, <<"a", "/">>, <<"b", ".", "ck">>, <<"a", "_">> >>
PageMixed  == << <<"#", "x">>, <<>>, <<".", ".", "/", "x">>, <<"a", "#", "x">> >>
PageBroken == << <<"b", ".", "ck">>, <<"/", "/", "[">>, <<"a">> >>
PageHttp   == << <<"http:", "/", "/", "chuck.stanford.edu", "/", "doc", "/", "a", "_">> >>
PageEmpty  == <<>>

\* redirect targets (response.url when it is not the requested URL)
ToCk      == <<"http:", "/", "/", "chuck.stanford.edu", "/", "doc", "/", "b", ".", "ck">>
ToOutside == <<"https:", "/", "/", "chuck.stanford.edu", "/", "x">>
ToFile    == <<"https:", "/", "/", "chuck.stanford.edu", "/", "doc", "/", "a", "_">>

\* what requests.get can answer: the redirect target (None: no redirect),
\* the Content-Type header and the anchors of the body
Responses ==
    { [url |-> None,      ctype |-> HTML,   hrefs |-> PageNew],
      [url |-> None,      ctype |-> HTML,   hrefs |-> PageMixed],
      [url |-> None,      ctype |-> HTML,   hrefs |-> PageBroken],
      [url |-> None,      ctype |-> HTML,   hrefs |-> PageEmpty],
      [url |-> None,      ctype |-> MULTI,  hrefs |-> PageEmpty],
      [url |-> None,      ctype |-> NOTYPE, hrefs |-> PageEmpty],
      [url |-> ToCk,      ctype |-> HTML,   hrefs |-> PageHttp],
      [url |-> ToCk,      ctype |-> PLAIN,  hrefs |-> PageEmpty],
      [url |-> ToOutside, ctype |-> HTML,   hrefs |-> PageEmpty],
      [url |-> ToFile,    ctype |-> HTML,   hrefs |-> PageEmpty] }

\* ------------------------------------------------------------------- state
VARIABLES
    pc,               \* "start", "seeds", "loop", "anchors", "done", "exit"
    argc,             \* len(sys.argv)
    exit_code,        \* <<status>> once the process has exited, <<>> before
    outputs,          \* have the output files and directories been created
    seed_urls,        \* the non-blank lines of the seed file
    seed_i,           \* number of seed lines already handled
    max_num_url,      \* int(sys.argv[2])
    identified_urls,  \* the seen set
    frontier,         \* the queue of URLs to fetch
    crawler_output,   \* lines of crawler.output
    links_output,     \* lines of links.output, <<source, target>>
    crawled_file,     \* lines of crawled.txt
    files,            \* regular files under html_files/ and ck_files/: path -> body
    dirs,             \* directories created under html_files/
    stored,           \* every save_content call that wrote a file, in order
    curr_url,         \* the URL popped last
    final_url,        \* response.url of the last response, scheme upgraded
    content_type,     \* Content-Type header of the last response
    anchors,          \* soup.find_all("a", href=True) of the page being parsed
    examined,         \* number of anchors the for loop has taken
    edges_start,      \* len(links.output) when the for loop started
    last,             \* what the last step did
    admitted,         \* every URL appended to the frontier, in order
    fetched,          \* every URL popped from the frontier, in order
    norm              \* a link, a base and what normalize_url makes of them

vars == <<pc, argc, exit_code, outputs, seed_urls, seed_i, max_num_url,
          identified_urls, frontier, crawler_output, links_output, crawled_file,
          files, dirs, stored, curr_url, final_url, content_type, anchors,
          examined, edges_start, last, admitted, fetched, norm>>

logs   == <<crawler_output, links_output, crawled_file>>
store  == <<files, dirs, stored>>
resp   == <<final_url, content_type>>
page   == <<anchors, examined, edges_start>>
inputs == <<argc, seed_urls, max_num_url, norm>>
proc   == <<outputs, exit_code>>

\* the state of a crawl before main runs: nothing is queued, stored or logged
Fresh ==
    /\ exit_code = <<>>
    /\ outputs = FALSE
    /\ stored = <<>>
    /\ seed_i = 0
    /\ identified_urls = {}
    /\ frontier = <<>>
    /\ crawler_output = <<>>
    /\ links_output = <<>>
    /\ crawled_file = <<>>
    /\ files = <<>>
    /\ dirs = {}
    /\ curr_url = None
    /\ final_url = None
    /\ content_type = None
    /\ anchors = <<>>
    /\ examined = 0
    /\ edges_start = 0
    /\ last = "start"
    /\ admitted = <<>>
    /\ fetched = <<>>

\* len(sys.argv) of an invocation
ArgCounts == {2, 3, 4}

\* the process starts: the command line and the seed file are given
Init ==
    /\ pc = "start"
    /\ argc \in ArgCounts
    /\ seed_urls \in (IF argc = 3 THEN SeedFiles ELSE {<<>>})
    /\ max_num_url \in (IF argc = 3 THEN 0..MaxCap ELSE {0})
    /\ norm = None
    /\ Fresh

\* the usage message printed without leaving the process
UsageContinues ==
    /\ pc = "start"
    /\ argc # 3
    /\ pc' = "seeds"
    /\ last' = "usage"
    /\ UNCHANGED <<inputs, proc, seed_i, identified_urls, frontier, logs, store,
                   curr_url, resp, page, admitted, fetched>>

\* main, lines 84-86: a wrong number of arguments ends the process
Usage ==
    /\ pc = "start"
    /\ argc # 3
    /\ pc' = "exit"
    /\ exit_code' = <<1>>
    /\ last' = "usage"
    /\ UNCHANGED <<inputs, outputs, seed_i, identified_urls, frontier, logs, store,
                   curr_url, resp, page, admitted, fetched>>

\* main, lines 88-96: the arguments and the seed file are read
ReadArgs ==
    /\ pc = "start"
    /\ argc = 3
    /\ pc' = "seeds"
    /\ last' = "args"
    /\ UNCHANGED <<inputs, proc, seed_i, identified_urls, frontier, logs, store,
                   curr_url, resp, page, admitted, fetched>>

\* a seed queued without its key being added to the seen set
LoadSeedUnrecorded ==
    /\ pc = "seeds"
    /\ seed_i < Len(seed_urls)
    /\ LET line      == seed_urls[seed_i + 1]
           root_link == IF EndsWith(line, <<"/">>) THEN line ELSE line \o <<"/">>
       IN  IF validate_url(root_link, allowed_roots)
           THEN /\ frontier' = Append(frontier, root_link)
                /\ admitted' = Append(admitted, root_link)
                /\ UNCHANGED identified_urls
                /\ last' = "seed"
           ELSE /\ UNCHANGED <<frontier, identified_urls, admitted>>
                /\ last' = "seed_out_of_scope"
    /\ seed_i' = seed_i + 1
    /\ UNCHANGED <<pc, inputs, proc, logs, store, curr_url, resp, page, fetched>>

\* one turn of "for root_link in seed_urls", lines 99-106
LoadSeed ==
    /\ pc = "seeds"
    /\ seed_i < Len(seed_urls)
    /\ LET line      == seed_urls[seed_i + 1]
           root_link == IF EndsWith(line, <<"/">>) THEN line ELSE line \o <<"/">>
       IN  IF validate_url(root_link, allowed_roots)
           THEN /\ frontier' = Append(frontier, root_link)
                /\ identified_urls' = identified_urls \cup {RStripSlash(root_link)}
                /\ admitted' = Append(admitted, root_link)
                /\ last' = "seed"
           ELSE /\ UNCHANGED <<frontier, identified_urls, admitted>>
                /\ last' = "seed_out_of_scope"
    /\ seed_i' = seed_i + 1
    /\ UNCHANGED <<pc, inputs, proc, logs, store, curr_url, resp, page, fetched>>

\* lines 108-119: the directories and the three output files are created
OpenOutputs ==
    /\ pc = "seeds"
    /\ seed_i = Len(seed_urls)
    /\ pc' = "loop"
    /\ outputs' = TRUE
    /\ last' = "opened"
    /\ UNCHANGED <<inputs, exit_code, seed_i, identified_urls, frontier, logs, store,
                   curr_url, resp, page, admitted, fetched>>

\* the while condition with <= in place of <
LoopGuardInclusive ==
    frontier # <<>> /\ Cardinality(identified_urls) <= max_num_url

\* the condition of the while loop, line 121
LoopGuard ==
    frontier # <<>> /\ Cardinality(identified_urls) < max_num_url

\* frontier.pop(): the newest URL is taken
pop_last(q) ==
    [url |-> q[Len(q)], rest |-> SubSeq(q, 1, Len(q) - 1)]

\* frontier.pop(0): the URL taken and the queue left
pop0(q) ==
    [url |-> Head(q), rest |-> Tail(q)]

\* curr_url = frontier.pop(0), line 122
Pop ==
    /\ pc = "loop"
    /\ LoopGuard
    /\ curr_url' = pop0(frontier).url
    /\ frontier' = pop0(frontier).rest
    /\ fetched' = Append(fetched, pop0(frontier).url)
    /\ UNCHANGED <<inputs, proc, seed_i>>

\* response.url with the scheme upgraded, lines 126-135; the elif of line 133
\* repeats the condition of line 130 and never runs
FinalUrl(r, requested) ==
    LET u == IF r.url = None THEN requested ELSE r.url
    IN  IF StartsWith(u, <<"http:", "/", "/">>) THEN <<"https:">> \o Tail(u) ELSE u

\* the test of lines 138-143: is the response saved
Storable(u, ctype) ==
    EndsWith(u, <<".", "ck">>) \/ Contains(ctype, <<"text/html">>)

\* every stored response is parsed
ParsedAlways(ctype) ==
    TRUE

\* the test of line 149: is the response parsed for links
Parsed(ctype) ==
    Contains(ctype, <<"text/html">>)

\* a failed request puts the URL back at the end of the frontier
FetchErrorRetries ==
    /\ pc = "loop"
    /\ LoopGuard
    /\ curr_url' = pop0(frontier).url
    /\ frontier' = Append(pop0(frontier).rest, curr_url')
    /\ last' = "fetch_error"
    /\ UNCHANGED <<pc, inputs, proc, seed_i, identified_urls, logs, store, resp,
                   page, admitted, fetched>>

\* a failed fetch that ends the run
FetchErrorAborts ==
    /\ Pop
    /\ last' = "fetch_error"
    /\ pc' = "done"
    /\ UNCHANGED <<identified_urls, logs, store, resp, page, admitted>>

\* a turn of the while loop in which requests.get raises, lines 122-125, 180-182
FetchError ==
    /\ Pop
    /\ last' = "fetch_error"
    /\ UNCHANGED <<pc, identified_urls, logs, store, resp, page, admitted>>

\* a turn of the while loop whose response is neither .ck nor HTML, line 143
SkipContent ==
    /\ Pop
    /\ \E r \in Responses :
          /\ ~Storable(FinalUrl(r, curr_url'), r.ctype)
          /\ final_url' = FinalUrl(r, curr_url')
          /\ content_type' = r.ctype
    /\ last' = "skipped"
    /\ UNCHANGED <<pc, identified_urls, logs, store, page, admitted>>

\* the crawled line written before the content is saved
SaveErrorLogged ==
    /\ Pop
    /\ \E r \in Responses :
          /\ Storable(FinalUrl(r, curr_url'), r.ctype)
          /\ save_raises(FinalUrl(r, curr_url'), files, dirs)
          /\ final_url' = FinalUrl(r, curr_url')
          /\ content_type' = r.ctype
          /\ crawled_file' = Append(crawled_file, final_url')
    /\ last' = "save_error"
    /\ UNCHANGED <<pc, identified_urls, crawler_output, links_output, store, page,
                   admitted>>

\* a turn of the while loop in which save_content raises, lines 138-141, 180-182
SaveError ==
    /\ Pop
    /\ \E r \in Responses :
          /\ Storable(FinalUrl(r, curr_url'), r.ctype)
          /\ save_raises(FinalUrl(r, curr_url'), files, dirs)
          /\ final_url' = FinalUrl(r, curr_url')
          /\ content_type' = r.ctype
    /\ last' = "save_error"
    /\ UNCHANGED <<pc, identified_urls, logs, store, page, admitted>>

\* the effect of save_content(url, content) on the two content directories
Save(u, body) ==
    /\ files' = (FilePath(u) :> body) @@ files
    /\ stored' = Append(stored, [fetch |-> Len(fetched'), url |-> u,
                                 path |-> FilePath(u), body |-> body])
    /\ dirs' = IF EndsWith(urlparse(u, "").path, <<"/">>)
               THEN dirs \cup {FileDir(u)} ELSE dirs

\* a turn of the while loop that stores the response, lines 122-150; an HTML
\* response with anchors goes on to the for loop of line 153
Store ==
    /\ Pop
    /\ \E r \in Responses :
          LET u == FinalUrl(r, curr_url')
          IN  /\ Storable(u, r.ctype)
              /\ ~save_raises(u, files, dirs)
              /\ Save(u, r.hrefs)
              /\ crawled_file' = Append(crawled_file, u)
              /\ final_url' = u
              /\ content_type' = r.ctype
              /\ IF Parsed(r.ctype)
                 THEN /\ anchors' = r.hrefs
                      /\ examined' = 0
                      /\ edges_start' = Len(links_output)
                      /\ pc' = IF r.hrefs = <<>> THEN "loop" ELSE "anchors"
                      /\ last' = "stored_page"
                 ELSE /\ UNCHANGED page
                      /\ pc' = "loop"
                      /\ last' = "stored_file"
    /\ UNCHANGED <<identified_urls, crawler_output, links_output, admitted>>

\* the edge written target first
EdgeLineSwapped(source, target) ==
    <<target, source>>

\* the line of links.output for one anchor, line 163
EdgeLine(source, target) ==
    <<source, target>>

\* the cap test that fires one URL late
CapReachedLate(seen, max) ==
    Cardinality(seen) > max

\* the test of line 173 that ends the run
CapReached(seen, max) ==
    Cardinality(seen) = max

\* one turn of "for link in soup.find_all(...)", lines 153-178
Anchor ==
    /\ pc = "anchors"
    /\ examined < Len(anchors)
    /\ examined' = examined + 1
    /\ LET href     == anchors[examined + 1]
           more     == IF examined + 1 < Len(anchors) THEN "anchors" ELSE "loop"
           full_url == normalize_url(href, final_url)
           normalized_full_url == RStripSlash(full_url)
       IN  IF StartsWith(href, <<"#">>)
           THEN /\ last' = "fragment"
                /\ pc' = more
                /\ UNCHANGED <<identified_urls, frontier, logs, admitted>>
           ELSE IF normalize_raises(href, final_url)
           THEN /\ last' = "anchor_error"
                /\ pc' = "loop"
                /\ UNCHANGED <<identified_urls, frontier, logs, admitted>>
           ELSE IF full_url = None \/ full_url = <<>>
           THEN /\ last' = "invalid"
                /\ pc' = more
                /\ UNCHANGED <<identified_urls, frontier, logs, admitted>>
           ELSE /\ links_output' = Append(links_output, EdgeLine(final_url, full_url))
                /\ UNCHANGED crawled_file
                /\ IF validate_url(full_url, allowed_roots)
                      /\ normalized_full_url \notin identified_urls
                   THEN /\ identified_urls' = identified_urls \cup {normalized_full_url}
                        /\ frontier' = Append(frontier, full_url)
                        /\ admitted' = Append(admitted, full_url)
                        /\ crawler_output' = Append(crawler_output, full_url)
                        /\ IF CapReached(identified_urls', max_num_url)
                           THEN pc' = "done" /\ last' = "cap"
                           ELSE pc' = more /\ last' = "queued"
                   ELSE /\ UNCHANGED <<identified_urls, frontier, admitted, crawler_output>>
                        /\ pc' = more
                        /\ last' = IF validate_url(full_url, allowed_roots)
                                   THEN "duplicate" ELSE "out_of_scope"
    /\ exit_code' = IF pc' = "done" THEN <<0>> ELSE exit_code
    /\ UNCHANGED <<inputs, outputs, seed_i, store, curr_url, resp, anchors,
                   edges_start, fetched>>

\* the while loop ends, lines 121 and 184-190
Summary ==
    /\ pc = "loop"
    /\ ~LoopGuard
    /\ pc' = "done"
    /\ exit_code' = <<0>>
    /\ last' = "summary"
    /\ UNCHANGED <<inputs, outputs, seed_i, identified_urls, frontier, logs, store,
                   curr_url, resp, page, admitted, fetched>>

Next ==
    \/ Usage
    \/ ReadArgs
    \/ LoadSeed
    \/ OpenOutputs
    \/ FetchError
    \/ SkipContent
    \/ SaveError
    \/ Store
    \/ Anchor
    \/ Summary

Spec == Init /\ [][Next]_vars

\* main has not returned and the process has not exited: some step of Next
\* can be taken, so Running is ENABLED <<Next>>_vars in every reachable state
Running == pc \notin {"done", "exit"}

\* the interpreter keeps executing main, and requests.get with its timeout
\* returns or raises: weak fairness of Next, WF_vars(Next), written with
\* Running for ENABLED <<Next>>_vars and, every step of Spec that changes
\* vars being a step of Next, with <<TRUE>>_vars for <<Next>>_vars
FairSpec == Spec /\ (<>[]Running => []<><<TRUE>>_vars)

----------------------------------------------------------------------------
\* normalize_url on its own: the hrefs a page can carry and the final URLs
\* they are resolved against

MaxLinkLen == 3

\* what an href is made of after its scheme and host
LinkTokens == {"/", "a", ".", "#", "?", "%20", " "}

\* how an href starts: relative, absolute, host-relative, other schemes
LinkPrefixes ==
    { <<>>,
      <<"https:", "/", "/", "chuck.stanford.edu">>,
      <<"/", "/", "x">>,
      <<"mailto:">>,
      <<"http:">>,
      <<"/", "/", "[">> }

LinkBodies == UNION {[1..n -> LinkTokens] : n \in 0..MaxLinkLen}

\* the values of href in line 154
Links == {p \o t : p \in LinkPrefixes, t \in LinkBodies}

\* the values of final_url in line 158: a directory and a file
Bases == {DocRoot, DocRoot \o <<"a", "/", "b", ".", "ck">>}

Pending == <<"pending">>
Raised  == <<"raised">>

\* a link and a base are given, normalize_url has not been called
NormInit ==
    /\ pc = "normalize"
    /\ argc = 3
    /\ seed_urls = <<>>
    /\ max_num_url = 0
    /\ Fresh
    /\ \E l \in Links, b \in Bases :
          norm = [link |-> l, root |-> b, url |-> Pending,
                  root2 |-> Pending, url2 |-> Pending]

\* the outcome of a call normalize_url(link, root)
Outcome(link, root) ==
    IF normalize_raises(link, root) THEN Raised ELSE normalize_url(link, root)

\* normalize_url(link, root) returns, lines 14-40
Normalize ==
    /\ pc = "normalize"
    /\ ~normalize_raises(norm.link, norm.root)
    /\ norm' = [norm EXCEPT !.url = normalize_url(norm.link, norm.root)]
    /\ pc' = "normalized"
    /\ UNCHANGED <<argc, seed_urls, max_num_url, proc, seed_i, identified_urls,
                   frontier, logs, store, curr_url, resp, page, last, admitted,
                   fetched>>

\* normalize_url(link, root) raises ValueError, lines 20 and 27
NormalizeRaises ==
    /\ pc = "normalize"
    /\ normalize_raises(norm.link, norm.root)
    /\ norm' = [norm EXCEPT !.url = Raised]
    /\ pc' = "raised"
    /\ UNCHANGED <<argc, seed_urls, max_num_url, proc, seed_i, identified_urls,
                   frontier, logs, store, curr_url, resp, page, last, admitted,
                   fetched>>

\* normalize_url is called on a URL it returned, against any base
NormalizeAgain ==
    /\ pc = "normalized"
    /\ norm.url # None
    /\ \E b \in Bases :
          norm' = [norm EXCEPT !.root2 = b, !.url2 = Outcome(norm.url, b)]
    /\ pc' = "renormalized"
    /\ UNCHANGED <<argc, seed_urls, max_num_url, proc, seed_i, identified_urls,
                   frontier, logs, store, curr_url, resp, page, last, admitted,
                   fetched>>

NormNext ==
    \/ Normalize
    \/ NormalizeRaises
    \/ NormalizeAgain

NormSpec == NormInit /\ [][NormNext]_vars

\* ------------------------------------------------------------------ claims
\* the steps that belong to the for loop over the anchors of the page last stored
InPage ==
    last \in {"stored_page", "fragment", "invalid", "anchor_error",
              "out_of_scope", "duplicate", "queued", "cap"}

\* the seed line in directory form
DirForm(line) ==
    IF EndsWith(line, <<"/">>) THEN line ELSE line \o <<"/">>

\* C1: in every reachable state the seen set holds at most max_num_url keys,
\* whatever the seed file and the cap
SeenWithinCap ==
    Cardinality(identified_urls) <= max_num_url

\* C2: any two entries ever appended to the frontier have different dedup keys
AdmittedKeysDistinct ==
    \A i, j \in 1..Len(admitted) :
        i # j => RStripSlash(admitted[i]) # RStripSlash(admitted[j])

\* C3: every URL ever appended to the frontier and every line of
\* crawler.output starts with an allowed root, and every key of the seen set
\* is the key of such a URL
AdmissionInScope ==
    /\ \A i \in 1..Len(admitted) : StartsWith(admitted[i], DocRoot)
    /\ \A i \in 1..Len(frontier) : StartsWith(frontier[i], DocRoot)
    /\ \A i \in 1..Len(crawler_output) : StartsWith(crawler_output[i], DocRoot)
    /\ \A k \in identified_urls :
          \E i \in 1..Len(admitted) : RStripSlash(admitted[i]) = k

\* an out-of-scope URL was discovered next to URLs that were queued
AdmissionInScopeWitness ==
    /\ crawler_output # <<>>
    /\ Len(admitted) >= 2
    /\ \E i \in 1..Len(links_output) : ~StartsWith(links_output[i][2], DocRoot)
    /\ \E i \in 1..Len(seed_urls) : ~StartsWith(DirForm(seed_urls[i]), DocRoot)

\* the seed file holds one in-scope seed and max_number_of_urls is 1
ScenarioA ==
    /\ Len(seed_urls) = 1
    /\ StartsWith(DirForm(seed_urls[1]), DocRoot)
    /\ max_num_url = 1

\* C4 as stated: at the end of scenario A one file is stored and crawled.txt
\* holds one line, the seed
ScenarioAStoresOne ==
    (ScenarioA /\ pc = "done") =>
        /\ crawled_file = <<DirForm(seed_urls[1])>>
        /\ Cardinality(DOMAIN files) = 1

\* C4: in scenario A the seed fills the cap, so the run fetches nothing,
\* stores no file and leaves crawled.txt empty
ScenarioAFetchesNothing ==
    (ScenarioA /\ pc \in {"loop", "anchors", "done"}) =>
        /\ fetched = <<>>
        /\ crawled_file = <<>>
        /\ files = <<>>
        /\ frontier = <<DirForm(seed_urls[1])>>

\* scenario A has run to its end
ScenarioAWitness ==
    ScenarioA /\ pc = "done" /\ last = "summary"

\* C5: the discovery that makes the seen set reach the cap ends the run in
\* the same step, and nothing changes once the run has ended
CapTerminationImmediate ==
    [][ /\ (/\ pc = "anchors"
            /\ identified_urls' # identified_urls
            /\ Cardinality(identified_urls') = max_num_url) => pc' = "done"
        /\ pc = "done" => UNCHANGED vars ]_vars

\* the cap was reached with anchors of the page and a queued URL left over
CapMidPageWitness ==
    /\ pc = "done"
    /\ last = "cap"
    /\ examined < Len(anchors)
    /\ Len(frontier) >= 2
    /\ Cardinality(identified_urls) = max_num_url

\* the lines links.output must hold for the anchors hs of the page src
RECURSIVE EdgesOf(_, _)
EdgesOf(src, hs) ==
    IF hs = <<>> THEN <<>>
    ELSE (IF \/ StartsWith(hs[1], <<"#">>)
             \/ normalize_raises(hs[1], src)
             \/ normalize_url(hs[1], src) = None
          THEN <<>>
          ELSE << <<src, normalize_url(hs[1], src)>> >>)
         \o EdgesOf(src, Tail(hs))

\* the lines written to links.output for the page last stored
PageEdges ==
    SubSeq(links_output, edges_start + 1, Len(links_output))

FrontierFifo ==
    admitted = fetched \o frontier

\* a discovered URL was fetched after the seeds
FrontierFifoWitness ==
    /\ Len(fetched) >= 3
    /\ \E i \in 1..Len(crawler_output) : crawler_output[i] = fetched[Len(fetched)]

\* C8: a failed fetch drops the URL and nothing else: the loop goes on, the
\* seen set, the logs, the stored files and the rest of the frontier stay
FetchFailureContinues ==
    [][ (last' = "fetch_error" /\ fetched' # fetched) =>
            /\ pc' = "loop"
            /\ curr_url' = Head(frontier)
            /\ frontier' = Tail(frontier)
            /\ UNCHANGED <<identified_urls, crawler_output, links_output,
                           crawled_file, files, dirs, admitted>> ]_vars

\* a fetch failed and the loop still has an entry to go on with
FetchFailureWitness ==
    /\ last = "fetch_error"
    /\ pc = "loop"
    /\ LoopGuard

\* C9: a stored response has a final URL ending in .ck or a Content-Type that
\* begins with text/html
StoredOnlyCkOrHtmlPrefix ==
    last \in {"stored_page", "stored_file"} =>
        \/ EndsWith(final_url, <<".", "ck">>)
        \/ StartsWith(content_type, <<"text/html">>)

\* C10 as stated: a response whose final URL ends in .ck is never parsed
CkNeverParsed ==
    InPage => ~EndsWith(final_url, <<".", "ck">>)

\* C10: a stored .ck response is parsed exactly when its Content-Type
\* contains text/html; otherwise it adds no edge and no discovery
CkParsedOnlyIfHtml ==
    [][ (/\ fetched' # fetched
         /\ last' \in {"stored_page", "stored_file"}
         /\ EndsWith(final_url', <<".", "ck">>)) =>
            /\ (last' = "stored_page") <=> Contains(content_type', <<"text/html">>)
            /\ last' = "stored_file" =>
                  /\ pc' = "loop"
                  /\ UNCHANGED <<identified_urls, crawler_output, links_output,
                                 admitted, anchors, examined>> ]_vars

\* a .ck response was stored without being parsed
CkNotParsedWitness ==
    /\ last = "stored_file"
    /\ EndsWith(final_url, <<".", "ck">>)
    /\ ~Contains(content_type, <<"text/html">>)

\* C11: crawled.output is the list of the stored URLs in fetch order: its i-th
\* line is the final URL of the i-th save_content call that wrote a file, the
\* calls belong to different fetches in increasing order, and a fetch whose
\* content was not stored (request failed, save failed, other content) has
\* no line
CrawledLogIsStoreLog ==
    /\ Len(crawled_file) = Len(stored)
    /\ \A i \in 1..Len(stored) :
          /\ crawled_file[i] = stored[i].url
          /\ stored[i].fetch \in 1..Len(fetched)
          /\ \A j \in 1..Len(stored) : i < j => stored[i].fetch < stored[j].fetch
    /\ last \in {"fetch_error", "skipped", "save_error"}
          => \A i \in 1..Len(stored) : stored[i].fetch # Len(fetched)

\* two fetches were stored and a later one failed in save_content
CrawledLogWitness ==
    /\ Len(stored) >= 2
    /\ last = "save_error"
    /\ Len(fetched) > Len(crawled_file)

\* the set of the elements of a sequence
Range(seq) == {seq[i] : i \in 1..Len(seq)}

\* the dedup key of a URL: the URL without its trailing slashes
KeyOf(url) ==
    IF url = <<>> \/ url[Len(url)] # "/" THEN url
    ELSE LET keep == CHOOSE n \in 0..Len(url) :
                        /\ \A i \in (n + 1)..Len(url) : url[i] = "/"
                        /\ n > 0 => url[n] # "/"
         IN  SubSeq(url, 1, keep)

\* C12: every URL queued into the frontier has exactly one line in
\* crawler.output and nothing else has one: the log is the list of the URLs
\* appended to the frontier, so the keys of the logged URLs are the keys of the
\* URLs admitted to the frontier
QueuedUrlsLogged ==
    /\ crawler_output = admitted
    /\ {KeyOf(u) : u \in Range(crawler_output)} = {KeyOf(u) : u \in Range(admitted)}

\* C13: the content store is write-once per URL within a run: no final URL is
\* stored (and logged in crawled.output) twice, and no save_content call
\* writes to the path of a file that an earlier call wrote
StoreWriteOnce ==
    \A i, j \in 1..Len(stored) :
        i < j => /\ stored[i].url # stored[j].url
                 /\ stored[i].path # stored[j].path
                 /\ crawled_file[i] # crawled_file[j]

\* C14: an invocation with a wrong number of arguments exits with a non-zero
\* status before any crawling: nothing is fetched, no output file and no
\* content directory is created, nothing is stored or logged, and the
\* frontier and the seen set are never populated
UsageErrorStopsBeforeCrawl ==
    argc # 3 =>
        /\ pc \in {"start", "exit"}
        /\ pc = "exit" => Len(exit_code) = 1 /\ exit_code[1] # 0
        /\ pc = "start" => exit_code = <<>>
        /\ fetched = <<>>
        /\ outputs = FALSE
        /\ files = <<>> /\ dirs = {} /\ stored = <<>>
        /\ crawler_output = <<>> /\ links_output = <<>> /\ crawled_file = <<>>
        /\ frontier = <<>> /\ admitted = <<>> /\ identified_urls = {}

\* the process has exited on the usage error
UsageErrorWitness ==
    /\ argc # 3
    /\ pc = "exit"
    /\ last = "usage"
    /\ exit_code = <<1>>

\* C15: normalize_url is idempotent: a canonical URL it returned is returned
\* unchanged when it is normalized again, against whatever base
NormalizeIdempotent ==
    pc = "renormalized" => norm.url2 = norm.url

\* C16 as stated: whatever the scheme of the link, a URL returned by
\* normalize_url has the scheme https
NormalizedAlwaysHttps ==
    pc = "normalized" /\ norm.url # None => norm.url[1] = "https:"

\* C16: a URL returned by normalize_url never has the scheme http: it has the
\* scheme https when the link is relative or has the scheme http or https,
\* and a link with another scheme (mailto:) keeps its scheme
NormalizedNeverHttp ==
    pc = "normalized" /\ norm.url # None =>
        /\ norm.url[1] # "http:"
        /\ norm.url[1] = IF norm.link[1] = "mailto:" THEN "mailto:" ELSE "https:"

\* an http link was normalized to an https URL
NormalizedNeverHttpWitness ==
    /\ pc = "normalized"
    /\ norm.url # None
    /\ norm.link[1] = "http:"
    /\ Len(norm.url) > 3
    /\ norm.url[1] = "https:"

\* C17: every run terminates: main returns, with the frontier empty or the
\* cap reached, or the process exits on the usage error
RunTerminates ==
    <>(\/ pc = "exit"
       \/ /\ pc = "done"
          /\ frontier = <<>> \/ Cardinality(identified_urls) >= max_num_url)

\* a crawl that fetched at least two URLs has ended
RunTerminatesWitness ==
    /\ pc = "done"
    /\ Len(fetched) >= 2
    /\ Len(exit_code) = 1

\* the URL a step of the for loop normalized and logged as an edge
Discovered == links_output'[Len(links_output')][2]

\* C18: a discovered URL that is out of scope or whose key is in the seen set
\* leaves the seen set, the frontier and crawler.output as they are; an
\* in-scope URL with an unseen key adds exactly its key to the seen set and
\* the URL itself at the tail of the frontier and of crawler.output; an
\* anchor that yields no URL changes none of them; and no step removes an
\* element from the seen set
DiscoveryFrame ==
    [][ /\ identified_urls \subseteq identified_urls'
        /\ pc = "anchors" =>
              IF Len(links_output') = Len(links_output)
              THEN UNCHANGED <<identified_urls, frontier, crawler_output>>
              ELSE IF StartsWith(Discovered, DocRoot)
                      /\ KeyOf(Discovered) \notin identified_urls
              THEN /\ identified_urls' = identified_urls \cup {KeyOf(Discovered)}
                   /\ Cardinality(identified_urls') = Cardinality(identified_urls) + 1
                   /\ frontier' = Append(frontier, Discovered)
                   /\ crawler_output' = Append(crawler_output, Discovered)
                   /\ last' \in {"queued", "cap"}
              ELSE /\ UNCHANGED <<identified_urls, frontier, crawler_output>>
                   /\ last' \in {"duplicate", "out_of_scope"}
      ]_vars

\* after a URL was queued from a page, a link of a later page was dropped as
\* a duplicate
DiscoveryFrameWitness ==
    /\ last = "duplicate"
    /\ Len(crawler_output) >= 1
    /\ Len(fetched) >= 2
    /\ \E i \in 1..Len(links_output) :
          ~StartsWith(links_output[i][2], DocRoot)

\* C19: every URL written to crawled.output and every URL whose content is
\* stored is in scope, also when the request was redirected and the URL
\* stored and logged is the final one
StoredInScope ==
    /\ \A i \in 1..Len(crawled_file) : validate_url(crawled_file[i], allowed_roots)
    /\ \A i \in 1..Len(stored) : validate_url(stored[i].url, allowed_roots)

\* C20: in every reachable state the dedup key of every URL in the frontier
\* is a member of the seen set
FrontierKeysSeen ==
    \A i \in 1..Len(frontier) : KeyOf(frontier[i]) \in identified_urls

\* the frontier holds a seed in directory form and a URL queued from a page
FrontierKeysSeenWitness ==
    /\ Len(frontier) >= 2
    /\ Len(crawler_output) >= 1
    /\ \E i \in 1..Len(frontier) : KeyOf(frontier[i]) # frontier[i]
    /\ \E i \in 1..Len(frontier) : frontier[i] \in Range(crawler_output)

====
